---- MODULE Spec2Model ----
(***************************************************************************)
(* Model of clippy_lints/src/literal_digit_grouping.rs: the decomposition  *)
(* of a numeric literal (DigitInfo::new, get_digits), the grouping hint    *)
(* (DigitInfo::grouping_hint), the per-part check (do_lint) and the        *)
(* driver (check_lit).  A string is a sequence of one-character strings.   *)
(***************************************************************************)
EXTENDS Integers, Sequences, FiniteSets, TLC

\* Longest digit body (digits and underscores) of a generated integer literal.
MaxBody == 7
\* Longest integral / fractional part of a generated float literal.
MaxPart == 5

(***************************************************************************)
(* Helpers of the Rust string / iterator API used by the source.           *)
(***************************************************************************)
None == [some |-> FALSE, val |-> <<>>]

Some(v) == [some |-> TRUE, val |-> v]

unwrap_or(o, d) == IF o.some THEN o.val ELSE d

rev(s) == [i \in 1..Len(s) |-> s[Len(s) + 1 - i]]

filter_underscore(s) == SelectSeq(s, LAMBDA c : c # "_")

starts_with(s, p) == Len(s) >= Len(p) /\ SubSeq(s, 1, Len(p)) = p

contains(s, c) == \E i \in 1..Len(s) : s[i] = c

RECURSIVE split(_, _)
split(s, D) ==
    IF \A i \in 1..Len(s) : s[i] \notin D
    THEN <<s>>
    ELSE LET k == CHOOSE i \in 1..Len(s) :
                      s[i] \in D /\ \A j \in 1..(i - 1) : s[j] \notin D
         IN  <<SubSeq(s, 1, k - 1)>> \o split(SubSeq(s, k + 1, Len(s)), D)

split_terminator(s, D) ==
    LET ps == split(s, D)
    IN  IF ps[Len(ps)] = <<>> THEN SubSeq(ps, 1, Len(ps) - 1) ELSE ps

RECURSIVE chunks(_, _)
chunks(v, n) ==
    IF Len(v) = 0 THEN <<>>
    ELSE IF Len(v) <= n THEN <<v>>
    ELSE <<SubSeq(v, 1, n)>> \o chunks(SubSeq(v, n + 1, Len(v)), n)

RECURSIVE join(_, _)
join(ps, sep) ==
    IF Len(ps) = 0 THEN <<>>
    ELSE IF Len(ps) = 1 THEN ps[1]
    ELSE ps[1] \o sep \o join(Tail(ps), sep)

(***************************************************************************)
(* Radix                                                                   *)
(***************************************************************************)
\* Mutant: hexadecimal grouped like decimal.
suggest_grouping_hex3(radix) ==
    CASE radix \in {"Binary"} -> 4
      [] radix \in {"Octal", "Decimal", "Hexadecimal"} -> 3

suggest_grouping(radix) ==
    CASE radix \in {"Binary", "Hexadecimal"} -> 4
      [] radix \in {"Octal", "Decimal"} -> 3

(***************************************************************************)
(* DigitInfo                                                               *)
(***************************************************************************)
DigitInfo_new(lit, float) ==
    LET radix == IF starts_with(lit, <<"0", "x">>) THEN "Hexadecimal"
                 ELSE IF starts_with(lit, <<"0", "b">>) THEN "Binary"
                 ELSE IF starts_with(lit, <<"0", "o">>) THEN "Octal"
                 ELSE "Decimal"
        prefix == IF radix = "Decimal" THEN None ELSE Some(SubSeq(lit, 1, 2))
        sans_prefix == IF radix = "Decimal" THEN lit ELSE SubSeq(lit, 3, Len(lit))
        is_marker(d) == (~float /\ (d = "i" \/ d = "u")) \/ (float /\ d = "f")
        found == \E i \in 1..Len(sans_prefix) : is_marker(sans_prefix[i])
        k == CHOOSE i \in 1..Len(sans_prefix) :
                 is_marker(sans_prefix[i])
                 /\ \A j \in 1..(i - 1) : ~is_marker(sans_prefix[j])
        \* number of characters before the suffix
        suffix_start == IF k > 1 /\ sans_prefix[k - 1] = "_" THEN k - 2 ELSE k - 1
    IN  IF found
        THEN [digits |-> SubSeq(sans_prefix, 1, suffix_start),
              radix  |-> radix,
              prefix |-> prefix,
              suffix |-> Some(SubSeq(sans_prefix, suffix_start + 1, Len(sans_prefix))),
              float  |-> float]
        ELSE [digits |-> sans_prefix,
              radix  |-> radix,
              prefix |-> prefix,
              suffix |-> None,
              float  |-> float]

\* Mutant: the chunks are not reversed back.
group_from_right_unreversed(part, group_size) ==
    join(rev(chunks(filter_underscore(rev(part)), group_size)), <<"_">>)

\* chars().rev().filter(!= '_').chunks(n).map(rev).rev().join("_")
group_from_right(part, group_size) ==
    LET cs == chunks(filter_underscore(rev(part)), group_size)
        back == [i \in 1..Len(cs) |-> rev(cs[i])]
    IN  join(rev(back), <<"_">>)

\* Mutant: the fractional part grouped from its last digit.
group_from_left_as_right(part, group_size) ==
    group_from_right(part, group_size)

\* chars().filter(!= '_').chunks(n).join("_")
group_from_left(part, group_size) ==
    join(chunks(filter_underscore(part), group_size), <<"_">>)

grouping_hint(self) ==
    LET group_size == suggest_grouping(self.radix)
    IN  IF contains(self.digits, ".")
        THEN LET parts == split(self.digits, {"."})
             IN  group_from_right(parts[1], group_size) \o <<".">>
                   \o group_from_left(parts[2], group_size)
                   \o unwrap_or(self.suffix, <<>>)
        ELSE unwrap_or(self.prefix, <<>>)
               \o group_from_right(self.digits, group_size)
               \o unwrap_or(self.suffix, <<>>)

(***************************************************************************)
(* Diagnostics                                                             *)
(***************************************************************************)
span_help_and_lint(lint, msg, help) == [lint |-> lint, msg |-> msg, help |-> help]

\* A help text: a fixed sentence followed by an interpolated string.
FixedHelp(text) == [text |-> text, arg |-> <<>>]

\* WarningType::display builds "consider: {grouping_hint}".
display(self, hint) ==
    CASE self = "UnreadableLiteral" ->
           span_help_and_lint("UNREADABLE_LITERAL", "long literal lacking separators",
                              [text |-> "consider: ", arg |-> hint])
      [] self = "LargeDigitGroups" ->
           span_help_and_lint("LARGE_DIGIT_GROUPS", "digit groups should be smaller",
                              [text |-> "consider: ", arg |-> hint])
      [] self = "InconsistentDigitGrouping" ->
           span_help_and_lint("INCONSISTENT_DIGIT_GROUPING",
                              "digits grouped inconsistently by underscores",
                              [text |-> "consider: ", arg |-> hint])

(***************************************************************************)
(* LiteralDigitGrouping                                                    *)
(***************************************************************************)
get_digits(lit, float) ==
    LET mb_r == IF starts_with(lit, <<"0", "x">>) THEN Some("x")
                ELSE IF starts_with(lit, <<"0", "b">>) THEN Some("b")
                ELSE IF starts_with(lit, <<"0", "o">>) THEN Some("o")
                ELSE None
        has_suffix == (~float /\ (contains(lit, "i") \/ contains(lit, "u")))
                      \/ (float /\ contains(lit, "f"))
        fset == IF float THEN {"f"} ELSE {}
        digits == IF mb_r.some
                  THEN split(lit, {"i", "u", mb_r.val} \cup fset)[2]
                  ELSE split(lit, {"i", "u"} \cup fset)[1]
    IN  IF has_suffix /\ digits[Len(digits)] = "_"
        THEN SubSeq(digits, 1, Len(digits) - 1)
        ELSE digits

\* Indices of the underscores, counted from the last character (index 0).
underscore_positions(digits) ==
    LET r == rev(digits)
    IN  SelectSeq([i \in 1..Len(digits) |-> i - 1], LAMBDA idx : r[idx + 1] = "_")

\* Mutant: four digits already need underscores.
needs_underscores_from4(digits) == Len(digits) >= 4

\* Mutant: five digits do not need underscores yet.
needs_underscores_above5(digits) == Len(digits) > 5

\* do_lint: `digits.len() > 4`
needs_underscores(digits) == Len(digits) > 4

\* Mutant: the size of the leading group is not checked.
groups_consistent_any_leading(digits, ups, group_size) ==
    \A w \in 1..(Len(ups) - 1) : ups[w + 1] - ups[w] = group_size + 1

\* do_lint: `consistent`
groups_consistent(digits, ups, group_size) ==
    /\ \A w \in 1..(Len(ups) - 1) : ups[w + 1] - ups[w] = group_size + 1
    /\ Len(digits) - ups[Len(ups)] <= group_size + 1

\* Mutant: the inconsistent-grouping lint is emitted but the size is still returned.
do_lint_no_return(digits) ==
    LET ups == underscore_positions(digits)
    IN  IF Len(ups) = 0
        THEN IF needs_underscores(digits)
             THEN [ret |-> None,
                   emitted |-> <<span_help_and_lint("UNREADABLE_LITERAL",
                       "long literal lacking separators",
                       FixedHelp("consider using underscores to make literal more readable"))>>]
             ELSE [ret |-> Some(0), emitted |-> <<>>]
        ELSE LET group_size == ups[1]
                 consistent == groups_consistent(digits, ups, group_size)
             IN  IF ~consistent
                 THEN [ret |-> Some(group_size),
                       emitted |-> <<span_help_and_lint("INCONSISTENT_DIGIT_GROUPING",
                           "digits grouped inconsistently by underscores",
                           FixedHelp("consider making each group three or four digits"))>>]
                 ELSE IF group_size > 4
                 THEN [ret |-> None,
                       emitted |-> <<span_help_and_lint("LARGE_DIGIT_GROUPS",
                           "digit groups should be smaller",
                           FixedHelp("consider using groups of three or four digits"))>>]
                 ELSE [ret |-> Some(group_size), emitted |-> <<>>]

\* The result of do_lint: the returned Option<usize> and the lints emitted.
do_lint(digits) ==
    LET ups == underscore_positions(digits)
    IN  IF Len(ups) = 0
        THEN IF needs_underscores(digits)
             THEN [ret |-> None,
                   emitted |-> <<span_help_and_lint("UNREADABLE_LITERAL",
                       "long literal lacking separators",
                       FixedHelp("consider using underscores to make literal more readable"))>>]
             ELSE [ret |-> Some(0), emitted |-> <<>>]
        ELSE LET group_size == ups[1]
                 consistent == groups_consistent(digits, ups, group_size)
             IN  IF ~consistent
                 THEN [ret |-> None,
                       emitted |-> <<span_help_and_lint("INCONSISTENT_DIGIT_GROUPING",
                           "digits grouped inconsistently by underscores",
                           FixedHelp("consider making each group three or four digits"))>>]
                 ELSE IF group_size > 4
                 THEN [ret |-> None,
                       emitted |-> <<span_help_and_lint("LARGE_DIGIT_GROUPS",
                           "digit groups should be smaller",
                           FixedHelp("consider using groups of three or four digits"))>>]
                 ELSE [ret |-> Some(group_size), emitted |-> <<>>]

\* Mutant: the (_, 0) arm measures the integral part.
cross_consistent_wrong_part(digits, integral_group_size, fractional_group_size) ==
    IF integral_group_size = 0 /\ fractional_group_size = 0 THEN TRUE
    ELSE IF fractional_group_size = 0 THEN Len(digits[1]) <= integral_group_size
    ELSE IF integral_group_size = 0 THEN Len(digits[1]) <= fractional_group_size
    ELSE integral_group_size = fractional_group_size

\* Mutant: the fractional part is not reversed.
fractional_part_unreversed(digits) == digits[2]

\* check_lit: `digits[1].chars().rev().collect::<String>()`
fractional_part_of(digits) == rev(digits[2])

\* The match of check_lit on (integral_group_size, fractional_group_size).
cross_consistent(digits, integral_group_size, fractional_group_size) ==
    IF integral_group_size = 0 /\ fractional_group_size = 0 THEN TRUE
    ELSE IF fractional_group_size = 0 THEN Len(digits[2]) <= integral_group_size
    ELSE IF integral_group_size = 0 THEN Len(digits[1]) <= fractional_group_size
    ELSE integral_group_size = fractional_group_size

(***************************************************************************)
(* Literals handed to check_lit: the source text of lexically valid        *)
(* integer and float literals (no exponent), and whether the literal is a  *)
(* LitKind::Float.                                                         *)
(***************************************************************************)
DecDigits == <<"1", "2", "3", "4", "5", "6", "7", "8", "9", "0">>

HexDigits == <<"f", "1", "b", "A", "0", "e", "d", "c", "9", "8">>

OctDigits == <<"7", "1", "2", "3", "4", "5", "6", "0">>

BinDigits == <<"1", "0">>

\* A body of n characters: underscores at the positions of U, digits elsewhere.
Body(n, U, cyc, off) ==
    [i \in 1..n |-> IF i \in U THEN "_" ELSE cyc[((i + off - 1) % Len(cyc)) + 1]]

Radices ==
    { [prefix |-> <<>>, cyc |-> DecDigits],
      [prefix |-> <<"0", "x">>, cyc |-> HexDigits],
      [prefix |-> <<"0", "o">>, cyc |-> OctDigits],
      [prefix |-> <<"0", "b">>, cyc |-> BinDigits] }

IntSuffixes == { <<>>, <<"u", "8">>, <<"_", "i", "3", "2">>, <<"u", "s", "i", "z", "e">> }

FloatSuffixes == { <<>>, <<"f", "3", "2">>, <<"_", "f", "6", "4">> }

IntLits ==
    { [text |-> r.prefix \o Body(b[1], b[2], r.cyc, 0) \o sfx, float |-> FALSE] :
        r \in Radices,
        b \in { c \in UNION { {n} \X SUBSET (1..n) : n \in 1..MaxBody } :
                  c[2] # 1..c[1] },
        sfx \in IntSuffixes }

\* A decimal literal starts with a digit; so does a fractional part.
DecParts(lo, off) ==
    { Body(n, U, DecDigits, off) : n \in lo..MaxPart, U \in SUBSET (2..MaxPart) }

FloatLits ==
    { [text |-> i, float |-> TRUE] :
        i \in { ip \o <<".">> \o fp \o sfx :
                  ip \in DecParts(1, 0), fp \in DecParts(1, 4), sfx \in FloatSuffixes }
              \cup { ip \o <<".">> : ip \in DecParts(1, 0) }
              \cup { ip \o sfx : ip \in DecParts(1, 0), sfx \in FloatSuffixes \ {<<>>} } }

Examples ==
    { [text |-> <<"0","x","F","F","F","F","F","F","F","F">>, float |-> FALSE],
      [text |-> <<"6","1","8","6","4","9","1","8","9","7","3","5","1","1">>, float |-> FALSE],
      [text |-> <<"6","1","8","_","6","4","_","9","1","8","9","_","7","3","_","5","1","1">>,
       float |-> FALSE],
      [text |-> <<"6","1","8","6","4","9","1","_","8","9","7","3","5","1","1">>, float |-> FALSE],
      [text |-> <<"1","_","2","3","4",".","5","_","6","7">>, float |-> TRUE],
      [text |-> <<"1","_","2","3","4",".","5","6","7","8","9">>, float |-> TRUE],
      [text |-> <<"1","_","2","3","4",".","1","2","3","_","4","_","f","3","2">>, float |-> TRUE],
      [text |-> <<"1",".","1","2","3","_","4","5","6","_","7","_","f","3","2">>, float |-> TRUE],
      [text |-> <<"1","2","3","4",".","1","2","3","4","_","5">>, float |-> TRUE] }

Literals == IntLits \cup FloatLits \cup Examples

(***************************************************************************)
(* State                                                                   *)
(***************************************************************************)
VARIABLES
    orig,     \* the literal given to the lint: [text, float]
    src,      \* snippet_opt(cx, lit.span): the text under analysis
    round,    \* 0: analysing the literal, 1: analysing its grouping hint
    pc,       \* position in check_lit
    digits,   \* check_lit's local `digits` (float branch)
    integral_group_size,
    fractional_group_size,
    diags,    \* lints emitted through span_help_and_lint for src
    stages,   \* the checks check_lit has run for src, in order
    hint      \* DigitInfo::new(orig).grouping_hint(), once computed

vars == <<orig, src, round, pc, digits, integral_group_size, fractional_group_size,
          diags, stages, hint>>

is_decimal_digit(c) == c \in {"0", "1", "2", "3", "4", "5", "6", "7", "8", "9"}

\* One check run by check_lit: its argument, its return value and its lints.
Stage(name, arg, r) == [stage |-> name, arg |-> arg, ret |-> r.ret, emitted |-> r.emitted]

Init ==
    /\ orig \in Literals
    /\ src = orig.text
    /\ round = 0
    /\ pc = "start"
    /\ digits = <<>>
    /\ integral_group_size = None
    /\ fractional_group_size = None
    /\ diags = <<>>
    /\ stages = <<>>
    /\ hint = <<>>

\* check_lit, LitKind::Int branch.
LintInt ==
    /\ pc = "start"
    /\ ~orig.float
    /\ Len(src) > 0 /\ is_decimal_digit(src[1])
    /\ LET ds == get_digits(src, FALSE)
           r == do_lint(ds)
       IN  /\ diags' = diags \o r.emitted
           /\ stages' = Append(stages, Stage("integral", ds, r))
           /\ integral_group_size' = r.ret
    /\ pc' = "done"
    /\ UNCHANGED <<orig, src, round, digits, fractional_group_size, hint>>

\* check_lit, LitKind::Float branch: the integral part.
LintIntegral ==
    /\ pc = "start"
    /\ orig.float
    /\ Len(src) > 0 /\ is_decimal_digit(src[1])
    /\ LET ds == split_terminator(get_digits(src, TRUE), {"."})
           r == do_lint(ds[1])
       IN  /\ digits' = ds
           /\ diags' = diags \o r.emitted
           /\ stages' = Append(stages, Stage("integral", ds[1], r))
           /\ integral_group_size' = r.ret
           /\ pc' = IF r.ret.some /\ Len(ds) > 1 THEN "integral_ok" ELSE "done"
    /\ UNCHANGED <<orig, src, round, fractional_group_size, hint>>

\* check_lit, LitKind::Float branch: the fractional part, reversed.
LintFractional ==
    /\ pc = "integral_ok"
    /\ LET fractional_part == fractional_part_of(digits)
           r == do_lint(fractional_part)
       IN  /\ diags' = diags \o r.emitted
           /\ stages' = Append(stages, Stage("fractional", fractional_part, r))
           /\ fractional_group_size' = r.ret
           /\ pc' = IF r.ret.some THEN "fractional_ok" ELSE "done"
    /\ UNCHANGED <<orig, src, round, digits, integral_group_size, hint>>

\* check_lit, LitKind::Float branch: consistency of the two group sizes.
CrossCheck ==
    /\ pc = "fractional_ok"
    /\ LET consistent == cross_consistent(digits, integral_group_size.val,
                                          fractional_group_size.val)
           emitted == IF ~consistent
                      THEN <<span_help_and_lint("INCONSISTENT_DIGIT_GROUPING",
                               "digits grouped inconsistently by underscores",
                               FixedHelp("consider making each group three or four digits"))>>
                      ELSE <<>>
       IN  /\ diags' = diags \o emitted
           /\ stages' = Append(stages, Stage("cross", <<>>, [ret |-> None, emitted |-> emitted]))
    /\ pc' = "done"
    /\ UNCHANGED <<orig, src, round, digits, integral_group_size,
                   fractional_group_size, hint>>

\* The grouping hint of the literal.
Suggest ==
    /\ pc = "done"
    /\ round = 0
    /\ hint' = grouping_hint(DigitInfo_new(orig.text, orig.float))
    /\ pc' = "hinted"
    /\ UNCHANGED <<orig, src, round, digits, integral_group_size,
                   fractional_group_size, diags, stages>>

\* The hint is given to check_lit as a literal of the same kind.
Reanalyse ==
    /\ pc = "hinted"
    /\ src' = hint
    /\ round' = 1
    /\ pc' = "start"
    /\ digits' = <<>>
    /\ integral_group_size' = None
    /\ fractional_group_size' = None
    /\ diags' = <<>>
    /\ stages' = <<>>
    /\ UNCHANGED <<orig, hint>>

Next ==
    \/ LintInt
    \/ LintIntegral
    \/ LintFractional
    \/ CrossCheck
    \/ Suggest
    \/ Reanalyse

Spec == Init /\ [][Next]_vars

(***************************************************************************)
(* Vocabulary of the properties                                            *)
(***************************************************************************)
Passed(st) == st.ret.some /\ st.emitted = <<>>

Failed(st, lint) == ~st.ret.some /\ Len(st.emitted) = 1 /\ st.emitted[1].lint = lint

PartStages == { i \in 1..Len(stages) : stages[i].stage \in {"integral", "fractional"} }

RECURSIVE EmittedUpTo(_)
EmittedUpTo(n) == IF n = 0 THEN <<>> ELSE EmittedUpTo(n - 1) \o stages[n].emitted

\* The groups of a digit string: the runs between separators, left to right.
Groups(s) == split(s, {"_"})

\* The integral and fractional parts of the text under analysis, from the classifier.
Parts == split(DigitInfo_new(src, orig.float).digits, {"."})

(***************************************************************************)
(* C1: analysing a literal emits at most one diagnostic and the checks     *)
(* short-circuit in order: nothing runs after a check that emitted; the    *)
(* fractional part is checked only after the integral part passed; the     *)
(* cross-check is applied only after both parts passed.                    *)
(***************************************************************************)
C1_ShortCircuit ==
    /\ Len(diags) <= 1
    /\ diags = EmittedUpTo(Len(stages))
    /\ \A i \in 1..Len(stages) :
         /\ stages[i].emitted # <<>> => i = Len(stages) /\ pc \in {"done", "hinted"}
         /\ stages[i].stage = "integral" => i = 1
         /\ stages[i].stage = "fractional" =>
              i = 2 /\ orig.float /\ stages[1].stage = "integral" /\ Passed(stages[1])
         /\ stages[i].stage = "cross" =>
              /\ i = 3 /\ orig.float
              /\ stages[1].stage = "integral" /\ Passed(stages[1])
              /\ stages[2].stage = "fractional" /\ Passed(stages[2])

\* A float whose integral part was flagged: it has a fractional part, never checked.
C1_Witness ==
    /\ orig.float /\ pc = "done" /\ round = 0
    /\ Len(stages) = 1 /\ Len(stages[1].emitted) = 1
    /\ Len(Parts) = 2 /\ Len(Parts[2]) > 0

(***************************************************************************)
(* C2: for a digit string with a separator, with groupSize the number of   *)
(* digits right of the rightmost separator, do_lint reports Inconsistent   *)
(* unless every inner group has groupSize digits and the leading group has *)
(* at most groupSize; a consistent string is GroupsTooLarge when           *)
(* groupSize > 4 and Acceptable(groupSize) otherwise.                      *)
(***************************************************************************)
C2_GroupingOutcome ==
    \A i \in PartStages :
        LET st == stages[i]
            gs == Groups(st.arg)
            n == Len(gs)
            groupSize == Len(gs[n])
            uniform == /\ \A k \in 2..(n - 1) : Len(gs[k]) = groupSize
                       /\ Len(gs[1]) <= groupSize
        IN  contains(st.arg, "_") =>
              IF ~uniform THEN Failed(st, "INCONSISTENT_DIGIT_GROUPING")
              ELSE IF groupSize > 4 THEN Failed(st, "LARGE_DIGIT_GROUPS")
              ELSE Passed(st) /\ st.ret.val = groupSize

\* A consistently grouped string whose groups are too large.
C2_Witness ==
    /\ pc = "done" /\ Len(stages) = 1
    /\ contains(stages[1].arg, "_")
    /\ Len(Groups(stages[1].arg)) = 2
    /\ Len(Groups(stages[1].arg)[1]) \in 1..5
    /\ Failed(stages[1], "LARGE_DIGIT_GROUPS")

(***************************************************************************)
(* C3: when the integral part passes with g_int and the non-empty          *)
(* fractional part passes with g_frac, no diagnostic is emitted exactly    *)
(* when the cross rule holds, and otherwise exactly one                    *)
(* INCONSISTENT_DIGIT_GROUPING diagnostic.                                 *)
(***************************************************************************)
C3_CrossRule ==
    (/\ orig.float /\ pc \in {"done", "hinted"}
     /\ Len(stages) >= 2 /\ Passed(stages[1]) /\ Passed(stages[2]))
    => LET g_int == stages[1].ret.val
           g_frac == stages[2].ret.val
           rule == IF g_int = 0 /\ g_frac = 0 THEN TRUE
                   ELSE IF g_int > 0 /\ g_frac = 0 THEN Len(Parts[2]) <= g_int
                   ELSE IF g_int = 0 /\ g_frac > 0 THEN Len(Parts[1]) <= g_frac
                   ELSE g_int = g_frac
       IN  /\ Len(Parts) = 2 /\ Len(Parts[2]) > 0
           /\ IF rule THEN diags = <<>>
              ELSE /\ Len(diags) = 1
                   /\ diags[1].lint = "INCONSISTENT_DIGIT_GROUPING"

\* Ungrouped integral part longer than the group size of the fractional part.
C3_Witness ==
    /\ orig.float /\ pc = "done" /\ Len(stages) = 3
    /\ stages[1].ret.val = 0 /\ stages[2].ret.val > 0
    /\ Len(diags) = 1

(***************************************************************************)
(* C4: a digit string without separators of length <= 4 is Acceptable(0)   *)
(* and, analysed as an integer literal, emits nothing; a longer one is     *)
(* Unreadable: one UNREADABLE_LITERAL diagnostic and no group size.        *)
(***************************************************************************)
C4_NoSeparators ==
    /\ \A i \in PartStages :
         LET st == stages[i]
         IN  ~contains(st.arg, "_") =>
               IF Len(st.arg) <= 4
               THEN Passed(st) /\ st.ret.val = 0
               ELSE Failed(st, "UNREADABLE_LITERAL")
    /\ (/\ ~orig.float /\ pc \in {"done", "hinted"}
        /\ \A k \in 1..Len(src) : is_decimal_digit(src[k]))
       => IF Len(src) <= 4 THEN diags = <<>>
          ELSE Len(diags) = 1 /\ diags[1].lint = "UNREADABLE_LITERAL"

\* A five-digit integer literal was analysed.
C4_Witness ==
    /\ ~orig.float /\ pc = "done" /\ round = 0
    /\ Len(src) = 5 /\ \A k \in 1..Len(src) : is_decimal_digit(src[k])
    /\ Len(diags) = 1

(***************************************************************************)
(* Vocabulary of the properties about the grouping hint                    *)
(***************************************************************************)
Info == DigitInfo_new(orig.text, orig.float)

PrefixText == unwrap_or(Info.prefix, <<>>)

SuffixText == unwrap_or(Info.suffix, <<>>)

\* The hint between the literal's prefix and suffix.
HintDigits == SubSeq(hint, Len(PrefixText) + 1, Len(hint) - Len(SuffixText))

PreferredSize ==
    IF starts_with(orig.text, <<"0", "x">>) \/ starts_with(orig.text, <<"0", "b">>)
    THEN 4 ELSE 3

(***************************************************************************)
(* C5: idempotence: analysing the grouping hint of a literal, as a literal *)
(* of the same kind, emits no diagnostic.                                  *)
(***************************************************************************)
C5_HintIsClean ==
    (round = 1 /\ pc = "done") => diags = <<>>

\* The hint of a float differs from the literal and went through all three checks.
C5_Witness ==
    /\ round = 1 /\ pc = "done" /\ orig.float
    /\ src # orig.text
    /\ Len(stages) = 3
    /\ stages[2].ret.val = 3

(***************************************************************************)
(* C6: round trip: the hint is the prefix, a regrouped digit sequence and  *)
(* the suffix; without its separators the regrouped sequence is the        *)
(* literal's digits without their separators.                              *)
(***************************************************************************)
C6_RoundTrip ==
    pc = "hinted" =>
        /\ Len(hint) >= Len(PrefixText) + Len(SuffixText)
        /\ hint = PrefixText \o HintDigits \o SuffixText
        /\ filter_underscore(HintDigits) = filter_underscore(Info.digits)

\* A float with separators in both parts and a suffix.
C6_Witness ==
    /\ pc = "hinted" /\ orig.float
    /\ Len(SuffixText) > 0
    /\ Len(Parts) = 2 /\ contains(Parts[1], "_") /\ contains(Parts[2], "_")
    /\ hint # orig.text

(***************************************************************************)
(* C10: the hint of an integer literal has groups of the radix's preferred *)
(* size (4 for 0b and 0x, 3 for 0o and decimal), except the leading group, *)
(* which has between 1 and that many digits; 0xFFFFFFFF gives 0xFFFF_FFFF. *)
(***************************************************************************)
C10_PreferredGroups ==
    (pc = "hinted" /\ ~orig.float) =>
        LET gs == Groups(HintDigits)
        IN  /\ \A k \in 2..Len(gs) : Len(gs[k]) = PreferredSize
            /\ Len(gs[1]) \in 1..PreferredSize
            /\ orig.text = <<"0","x","F","F","F","F","F","F","F","F">>
                 => hint = <<"0","x","F","F","F","F","_","F","F","F","F">>

C10_Witness ==
    /\ pc = "hinted"
    /\ orig.text = <<"0","x","F","F","F","F","F","F","F","F">>
    /\ Len(Groups(HintDigits)) = 2

(***************************************************************************)
(* C7 as stated: a float whose integral part passes with g_int > 0 and     *)
(* whose fractional part has no separators and more than g_int digits gets *)
(* exactly one diagnostic, INCONSISTENT_DIGIT_GROUPING from the            *)
(* cross-check.                                                            *)
(***************************************************************************)
C7_Original ==
    (/\ orig.float /\ pc = "done"
     /\ Passed(stages[1]) /\ stages[1].ret.val > 0
     /\ Len(Parts) = 2 /\ ~contains(Parts[2], "_")
     /\ Len(Parts[2]) > stages[1].ret.val)
    => /\ Len(stages) = 3
       /\ diags = stages[3].emitted
       /\ Len(diags) = 1 /\ diags[1].lint = "INCONSISTENT_DIGIT_GROUPING"

(***************************************************************************)
(* C7 amended: in that case exactly one diagnostic is emitted; it is       *)
(* INCONSISTENT_DIGIT_GROUPING from the cross-check when the fractional    *)
(* part has at most 4 digits, and UNREADABLE_LITERAL from the check of the *)
(* fractional part (the cross-check is not applied) when it has more;      *)
(* 1_234.56789 gets one UNREADABLE_LITERAL diagnostic.                     *)
(***************************************************************************)
C7_Amended ==
    (/\ orig.float /\ pc = "done"
     /\ Passed(stages[1]) /\ stages[1].ret.val > 0
     /\ Len(Parts) = 2 /\ ~contains(Parts[2], "_")
     /\ Len(Parts[2]) > stages[1].ret.val)
    => /\ Len(diags) = 1
       /\ IF Len(Parts[2]) <= 4
          THEN /\ Len(stages) = 3
               /\ diags = stages[3].emitted
               /\ diags[1].lint = "INCONSISTENT_DIGIT_GROUPING"
          ELSE /\ Len(stages) = 2
               /\ diags = stages[2].emitted
               /\ diags[1].lint = "UNREADABLE_LITERAL"

C7_Witness ==
    /\ pc = "done" /\ round = 0
    /\ orig.text = <<"1","_","2","3","4",".","5","6","7","8","9">>
    /\ Len(stages) = 2
    /\ Len(diags) = 1

(***************************************************************************)
(* C8 as stated: analysing 1_234.5_67 emits no diagnostic; both parts pass *)
(* with group size 3 and the cross-check passes.                           *)
(***************************************************************************)
C8_Original ==
    (/\ orig.text = <<"1","_","2","3","4",".","5","_","6","7">>
     /\ round = 0 /\ pc = "done")
    => /\ diags = <<>>
       /\ Len(stages) = 3
       /\ stages[1].ret = Some(3) /\ stages[2].ret = Some(3)

(***************************************************************************)
(* C8 amended: analysing 1_234.5_67 emits exactly one diagnostic: the      *)
(* integral part 1_234 passes with group size 3; the fractional part 5_67, *)
(* reversed before being checked so that it is counted from the decimal    *)
(* point outward, has a first group of 1 digit followed by a group of 2    *)
(* and fails with INCONSISTENT_DIGIT_GROUPING; the cross-check is not      *)
(* applied.                                                                *)
(***************************************************************************)
C8_Amended ==
    (/\ orig.text = <<"1","_","2","3","4",".","5","_","6","7">>
     /\ round = 0 /\ pc = "done")
    => /\ Len(stages) = 2
       /\ stages[1].arg = <<"1","_","2","3","4">> /\ stages[1].ret = Some(3)
       /\ stages[1].emitted = <<>>
       /\ stages[2].arg = <<"7","6","_","5">>
       /\ Failed(stages[2], "INCONSISTENT_DIGIT_GROUPING")
       /\ diags = stages[2].emitted

C8_Witness ==
    /\ orig.text = <<"1","_","2","3","4",".","5","_","6","7">>
    /\ round = 0 /\ pc = "done"
    /\ Len(diags) = 1

(***************************************************************************)
(* C9: every diagnostic of a per-part check carries the grouping hint of   *)
(* the literal as its suggestion; for a digit string longer than 4 without *)
(* separators, the suggestion without its separators is the digit string.  *)
(***************************************************************************)
C9_SuggestionIsHint ==
    \A i \in PartStages :
        \A j \in 1..Len(stages[i].emitted) :
            LET d == stages[i].emitted[j]
                warning == CASE d.lint = "UNREADABLE_LITERAL" -> "UnreadableLiteral"
                             [] d.lint = "LARGE_DIGIT_GROUPS" -> "LargeDigitGroups"
                             [] OTHER -> "InconsistentDigitGrouping"
            IN  /\ d = display(warning, grouping_hint(DigitInfo_new(src, orig.float)))
                /\ (~orig.float /\ \A k \in 1..Len(src) : is_decimal_digit(src[k]))
                     => filter_underscore(d.help.arg) = src
====
